---------------------------- MODULE Spec2Model ----------------------------
(***************************************************************************)
(* Kinematics selection for resonance events:                              *)
(* RESKinematicsGenerator (src/src/EVGModules/RESKinematicsGenerator.cxx). *)
(*                                                                         *)
(* Doubles are modelled on an integer grid.  W is counted in ticks of      *)
(* 0.1 GeV and Q2 in ticks of 0.1 GeV^2, so the W range [1.0, 2.0] GeV is  *)
(* [10, 20].  kASmallNum is the smallest step of the grid.  A uniform draw *)
(* r in [0,1) is the fraction k / RndDen with k in 0 .. RndDen-1.          *)
(***************************************************************************)
EXTENDS Integers, FiniteSets, Sequences, TLC

(***************************************************************************)
(* Bounds of the model.                                                    *)
(***************************************************************************)
\* the iteration ceiling genie::controls::kRjMaxIterations, scaled down
kRjMaxIterations == 3
\* a uniform random draw is one of k / RndDen, k in 0 .. RndDen-1
RndDen == 2

(***************************************************************************)
(* Program constants.                                                      *)
(***************************************************************************)
\* defaults of the user cuts (GetDoubleDef("W-min", -999999) and so on)
DefaultCutMin == -999999
DefaultCutMax == 999999
\* genie::controls::kASmallNum: one step of the grid
kASmallNum == 1
\* genie::controls::kMinQ2Limit: below one step of the grid
kMinQ2Limit == 1
\* safety factors are counted in quarters: max-xsec-safety-factor is 1.25 by
\* default, and 2 is used below the probe energy 0.8 GeV
FactorDen == 4
DefaultSafetyFactor == 5
LowEnergySafetyFactor == 8
LowEnergyLimit == 8
\* ComputeMaxXSec: points of the coarse scan, steps of the refined scan
NQ2 == 15
kNQ2b == 3
\* the dipole mass squared of the Q2 <-> QD2 transform, 0.7 GeV^2
kMQD2 == 7
\* the scale of the transformed variable QD2 (QD2 = 1 is QDScale ticks)
QDScale == 10
\* mass of the struck nucleon, in ticks
NucleonMass == 9
\* resonance mass and widths of the envelope, in ticks
ResMassTicks == 12
WidthUnknownRes == 6
WidthKnownRes == 2

Min(a, b) == IF a < b THEN a ELSE b
Max(a, b) == IF a > b THEN a ELSE b

Range(lo, hi) == [min |-> lo, max |-> hi]

(***************************************************************************)
(* State.                                                                  *)
(***************************************************************************)
VARIABLES
    \* configuration of the generator (RESKinematicsGenerator's fields)
    fWmin, fWmax, fQ2min, fQ2max, fWcut, fGenerateUniformly, fXSecModel,
    fMaxXSecDiffTolerance, fSafetyFactor, fEnvelope,
    \* the interaction: physical W limits, probe energy, resonance tag,
    \* kinematics (running and selected values), 'trust' bits
    physW, probeE, knownRes, kine, bits,
    \* the event record: flags, the differential cross section, the total
    \* cross section of the event, its weight, and the weight it had when the
    \* selection was entered
    evflags, diffXSec, evXSec, evWeight, weightIn,
    \* ProcessEventRecord: position, locals, raised exception
    pc, W, xsec_max, iter, last, exception,
    \* history counters: trials started, random draws, envelope samples,
    \* cross-section evaluations
    nTrials, nRnd, nSample, nXSec,
    \* the result of the last WRange / Q2Range call made on its own
    rangeOut,
    \* two selections run side by side on one stream of random values
    det,
    \* ComputeMaxXSec: position, locals, samples taken, returned value
    scan,
    \* the application gevgenML: command line, options read, position in
    \* main and GetCommandLineArgs, exit status
    app,
    \* the generator object: constructed, configured or destroyed, the
    \* pointer member fEnvelope (0 or the TF2 it points to; the variable
    \* fEnvelope is that TF2's range and parameters), the TF2 objects on
    \* the heap, the numbers of Configure and ProcessEventRecord calls
    life

cfgVars == <<fWmin, fWmax, fQ2min, fQ2max, fWcut, fGenerateUniformly, fXSecModel,
             fMaxXSecDiffTolerance, fSafetyFactor>>
\* what a selection reads and never writes
intVars == <<physW, probeE, knownRes, evXSec, weightIn>>
cntVars == <<nTrials, nRnd, nSample, nXSec>>
\* what only the specifications of single functions and of paired runs write
auxVars == <<rangeOut, det, scan, app, life>>
vars == <<cfgVars, intVars, fEnvelope, kine, bits, evflags, diffXSec, evWeight,
          pc, W, xsec_max, iter, last, exception, cntVars, auxVars>>

(***************************************************************************)
(* Kinematic limits.                                                       *)
(***************************************************************************)
\* Kinematics::W() of the running value; reads 0 when no value is set
RunningW(k) == IF "W" \in k.has THEN k.W ELSE 0

\* kinematics::KineRange(interaction, kKVQ2): the physical Q2 limits for
\* the probe energy and the W that is on the interaction when it is called
KineRangeQ2(E, k) == Range(1, E - RunningW(k))

\* kinematics::ApplyCutsToKineLimits: each cut is clamped into the range
ClampToRange(r, x) == IF x < r.min THEN r.min ELSE IF x > r.max THEN r.max ELSE x

ApplyCutsToKineLimits(r, min_cut, max_cut) ==
    Range(ClampToRange(r, min_cut), ClampToRange(r, max_cut))

\* WRange with the larger of Wcut and the narrowed maximum
WRangeWidening(phys) ==
    LET Wc == ApplyCutsToKineLimits(phys, fWmin, fWmax)
    IN  Range(Wc.min, Max(fWcut, Wc.max))

\* WRange without the Wcut step
WRangeNoWcut(phys) == ApplyCutsToKineLimits(phys, fWmin, fWmax)

\* lines 307-326
WRange(phys) ==
    LET Wc == ApplyCutsToKineLimits(phys, fWmin, fWmax)
    IN  Range(Wc.min, Min(fWcut, Wc.max))

Q2Range(E, k) == ApplyCutsToKineLimits(KineRangeQ2(E, k), fQ2min, fQ2max)

\* a range with no phase space, as tested on W and on Q2
EmptyRange(r) == r.max <= 0 \/ r.min >= r.max

(***************************************************************************)
(* External collaborators of the selector.                                 *)
(***************************************************************************)
\* the cross-section evaluators the model draws fXSecModel from; each is a
\* deterministic function of the running (W, Q2) of the interaction
XSecModels == {"zero", "flat", "peak", "neg"}

XSecAt(m, w, q2) ==
    CASE m = "zero" -> 0
      [] m = "flat" -> 2
      [] m = "peak" -> Max(0, 8 - 2 * Max(w - ResMassTicks, ResMassTicks - w) - q2)
      [] OTHER      -> IF q2 >= 3 THEN -1 ELSE 1

\* fXSecModel->XSec(interaction, kPSWQ2fE): evaluated at the running values
XSec(k) == XSecAt(fXSecModel, k.W, k.Q2)

\* utils::kinematics::Q2toQD2 and QD2toQ2: QD2 = 1 / (1 + Q2/kMQD2)
Q2toQD2(q2) == (QDScale * kMQD2) \div (kMQD2 + q2)
QD2toQ2(qd2) == (kMQD2 * (QDScale - qd2)) \div qd2

\* kinematics::Jacobian(interaction, kPSWQ2fE, kPSWQD2fE) = |dQ2/dQD2|,
\* at the running Q2 of the interaction
Jacobian(k) == ((kMQD2 + k.Q2) * (kMQD2 + k.Q2)) \div kMQD2

\* kinematics::WQ2toXY(E, M, W, Q2, x, y): x, y in units of 1/100
WQ2toXY(E, w, q2) ==
    LET den == w * w - NucleonMass * NucleonMass + 10 * q2
    IN  [x |-> IF den = 0 THEN 0 ELSE (1000 * q2) \div den,
         y |-> (100 * den) \div (2 * NucleonMass * E)]

\* kinematics::RESImportanceSamplingEnvelope, the TF2's function: a plateau
\* of height par[2] around the resonance with falling edges in W, mildly
\* weighted in QD2
EnvelopeEval(env, qd2, w) ==
    LET mD    == env.par[1]
        gD    == env.par[2]
        xsmax == env.par[3]
        wmax  == env.par[4]
        lo    == IF wmax > mD THEN mD - gD \div 2 ELSE wmax - 1
        hi    == IF wmax > mD THEN mD + 2 * gD ELSE wmax
        d     == IF w < lo THEN lo - w ELSE IF w > hi THEN w - hi ELSE 0
        inW   == IF d = 0 THEN xsmax ELSE (xsmax * gD * gD) \div (gD * gD + d * d)
    IN  IF 2 * qd2 < QDScale THEN (inW * (QDScale + 2 * qd2)) \div (2 * QDScale)
        ELSE inW

\* SetRange(xmin, ymin, xmax, ymax) with no room in one of the dimensions
DegenerateRange(env) == env.xmin >= env.xmax \/ env.ymin >= env.ymax

\* TF2::GetRandom2: a point of the envelope's range; on a range with no room
\* the point returned is one of the limits it was given
EnvelopePoints(env) ==
    IF DegenerateRange(env)
      THEN {env.xmin, env.xmax} \X {env.ymin, env.ymax}
      ELSE (env.xmin .. env.xmax) \X (env.ymin .. env.ymax)

\* KineGeneratorWithCache::MaxXSec: the cached or searched ceiling; a value
\* that is not positive makes MaxXSec throw
MaxXSecValues == {0, 4, 40}

\* lines 291-294: the values max-xsec-diff-tolerance is configured with (0
\* by default, never negative)
MaxXSecDiffToleranceValues == {0, 50}

\* a ceiling check that never fires
XSecLimitIgnored(xs, mx) == FALSE

\* KineGeneratorWithCache::AssertXSecLimits(interaction, xsec, max): the
\* hard stop when xsec exceeds max by more than the fractional tolerance
\* (fMaxXSecDiffTolerance, in percent of the mean of the two)
XSecLimitExceeded(xs, mx) ==
    xs > mx /\ 200 * (xs - mx) > fMaxXSecDiffTolerance * (mx + xs)

(***************************************************************************)
(* The Kinematics object of the interaction.                               *)
(***************************************************************************)
NoKinematics ==
    [W |-> 0, Q2 |-> 0, has |-> {},
     selW |-> 0, selQ2 |-> 0, selx |-> 0, sely |-> 0, locked |-> {}]

\* SetW(w): the running value
SetW(k, w) == [k EXCEPT !.W = w, !.has = @ \cup {"W"}]
SetQ2(k, q2) == [k EXCEPT !.Q2 = q2, !.has = @ \cup {"Q2"}]

\* the trial's values set as selected values
SetTrialKinematicsLocked(k, gW, gQ2) ==
    [k EXCEPT !.selW = gW, !.selQ2 = gQ2, !.locked = @ \cup {"W", "Q2"}]

\* lines 173-175: the kinematics of the current trial are running values
SetTrialKinematics(k, gW, gQ2) == SetQ2(SetW(k, gW), gQ2)

\* lines 230-235: SetQ2/SetW/Setx/Sety(v, true) then ClearRunningValues
LockSelectedKinematics(k, gW, gQ2, gx, gy) ==
    [k EXCEPT !.selQ2 = gQ2, !.selW = gW, !.selx = gx, !.sely = gy,
              !.locked = {"W", "Q2", "x", "y"},
              !.W = 0, !.Q2 = 0, !.has = {}]

(***************************************************************************)
(* ProcessEventRecord.                                                     *)
(***************************************************************************)
NoException == [raised |-> FALSE, reason |-> "", fastForward |-> FALSE]

\* EVGThreadException: SetReason(reason), SwitchOnFastForward(), throw
FastForwardException(reason) ==
    [raised |-> TRUE, reason |-> reason, fastForward |-> TRUE]

\* the trial the loop worked on last; xsec starts at -1 (line 98)
NoTrial ==
    [kind |-> "none", gW |-> 0, gQ2 |-> 0, gQD2 |-> 0, xsec |-> -1,
     max |-> 0, r |-> 0, J |-> 0, accept |-> FALSE]

Draws == 0 .. (RndDen - 1)

\* line 74: assert(W.min>=0. && W.min<W.max)
WAssertion(w) == w.min >= 0 /\ w.min < w.max

\* a counter that does not advance
IterStuck(i) == i

\* line 103: iter++
IterIncr(i) == i + 1

\* a ceiling test that lets the loop run once more
IterExceededLate(i) == i > kRjMaxIterations + 1

\* line 104: if(iter > kRjMaxIterations)
IterExceeded(i) == i > kRjMaxIterations

\* lines 95-97
LoopWmin == W.min + kASmallNum
LoopWmax == W.max - kASmallNum

\* acceptance of a vanishing cross section
AcceptUniformNonNegative(xs) == xs >= 0

\* line 193: accept = (xsec>0)
AcceptUniform(xs) == xs > 0

\* acceptance without the Jacobian
AcceptImportanceNoJacobian(tnum, J, xs) == tnum < xs * RndDen

\* lines 183, 190: t = max * Rndm(), accept = (t < J*xsec); the draw is
\* k / RndDen and tnum = max * k, so that t = tnum / RndDen
AcceptImportance(tnum, J, xs) == tnum < J * xs * RndDen

\* lines 57-83 in a build with assertions, when the assertion of line 74
\* fails: the process aborts
EnterAssertFails ==
    /\ pc = "Entry"
    /\ ~WAssertion(WRange(physW))
    /\ bits' = bits \cup {"kISkipProcessChk"}
    /\ W' = WRange(physW)
    /\ pc' = "Aborted"
    /\ UNCHANGED <<cfgVars, intVars, fEnvelope, kine, evflags, diffXSec, evWeight,
                   xsec_max, iter, last, exception, cntVars, auxVars>>

\* lines 57-83 when the assertion is compiled out (NDEBUG) and W is empty
EnterNoPhaseSpace ==
    /\ pc = "Entry"
    /\ EmptyRange(WRange(physW))
    /\ bits' = bits \cup {"kISkipProcessChk"}
    /\ W' = WRange(physW)
    /\ evflags' = evflags \cup {"kNoAvailablePhaseSpace"}
    /\ exception' = FastForwardException("No available phase space")
    /\ pc' = "NoPhaseSpace"
    /\ UNCHANGED <<cfgVars, intVars, fEnvelope, kine, diffXSec, evWeight,
                   xsec_max, iter, last, cntVars, auxVars>>

\* lines 57-101, uniform generation: xsec_max = -1, no MaxXSec call
EnterUniform ==
    /\ pc = "Entry"
    /\ ~EmptyRange(WRange(physW))
    /\ fGenerateUniformly
    /\ bits' = bits \cup {"kISkipProcessChk"}
    /\ W' = WRange(physW)
    /\ xsec_max' = -1
    /\ iter' = 0
    /\ pc' = "Sampling"
    /\ UNCHANGED <<cfgVars, intVars, fEnvelope, kine, evflags, diffXSec, evWeight,
                   last, exception, cntVars, auxVars>>

\* lines 57-101, importance sampling: MaxXSec(evrec) gives the ceiling
EnterImportance ==
    /\ pc = "Entry"
    /\ ~EmptyRange(WRange(physW))
    /\ ~fGenerateUniformly
    /\ \E v \in MaxXSecValues :
         /\ v > 0
         /\ xsec_max' = v
    /\ bits' = bits \cup {"kISkipProcessChk"}
    /\ W' = WRange(physW)
    /\ iter' = 0
    /\ pc' = "Sampling"
    /\ UNCHANGED <<cfgVars, intVars, fEnvelope, kine, evflags, diffXSec, evWeight,
                   last, exception, cntVars, auxVars>>

\* lines 85-91: MaxXSec finds no positive value and throws
EnterMaxXSecFails ==
    /\ pc = "Entry"
    /\ ~EmptyRange(WRange(physW))
    /\ ~fGenerateUniformly
    /\ \E v \in MaxXSecValues : v <= 0
    /\ bits' = bits \cup {"kISkipProcessChk"}
    /\ W' = WRange(physW)
    /\ exception' = FastForwardException("max xsec <= 0")
    /\ pc' = "MaxXSecFailed"
    /\ UNCHANGED <<cfgVars, intVars, fEnvelope, kine, evflags, diffXSec, evWeight,
                   xsec_max, iter, last, cntVars, auxVars>>

\* lines 103-113: the counter passes the ceiling
Exhaust ==
    /\ pc = "Sampling"
    /\ IterExceeded(IterIncr(iter))
    /\ iter' = IterIncr(iter)
    /\ evflags' = evflags \cup {"kNoValidKinematics"}
    /\ exception' = FastForwardException("Couldn't select kinematics")
    /\ pc' = "Exhausted"
    /\ UNCHANGED <<cfgVars, intVars, fEnvelope, kine, bits, diffXSec, evWeight,
                   W, xsec_max, last, cntVars, auxVars>>

\* kinematics::PhaseSpaceVolume(interaction, kPSWQ2fE): the area of the
\* physical (W, Q2) region, counted in cells of the grid
PhaseSpaceVolume(phys, E) ==
    Cardinality({c \in (phys.min .. (phys.max - 1)) \X (1 .. E) :
                    c[2] < KineRangeQ2(E, SetW(NoKinematics, c[1])).max})

\* a weight is the fraction num / den; a double divided by zero is not
\* finite, which is den = 0
Weight(n) == [num |-> n, den |-> 1]

\* the correction without the weight the event already has
UniformWeightNoPrevious(vol, totxsec, xs, prev) ==
    [num |-> vol * xs, den |-> totxsec]

\* lines 219-226: wght = (vol/totxsec)*xsec; wght *= evrec->GetWeight()
UniformWeight(vol, totxsec, xs, prev) ==
    [num |-> vol * xs * prev.num, den |-> totxsec * prev.den]

\* the correction applied in either mode
CommittedWeightEitherMode(uniform, vol, totxsec, xs, prev) ==
    UniformWeight(vol, totxsec, xs, prev)

\* lines 218-228: the weight is set only if(fGenerateUniformly)
CommittedWeight(uniform, vol, totxsec, xs, prev) ==
    IF uniform THEN UniformWeight(vol, totxsec, xs, prev) ELSE prev

\* lines 196-237: the accepted trial is committed (k is the kinematics
\* with the trial's running values, xs its cross section)
Commit(k, gW, gQ2, xs) ==
    LET xy == WQ2toXY(probeE, gW, gQ2)
    IN  /\ bits' = bits \ {"kISkipProcessChk", "kISkipKinematicChk"}
        /\ diffXSec' = xs
        /\ evWeight' = CommittedWeight(fGenerateUniformly,
                                       PhaseSpaceVolume(physW, probeE),
                                       evXSec, xs, evWeight)
        /\ kine' = LockSelectedKinematics(k, gW, gQ2, xy.x, xy.y)
        /\ pc' = "Accepted"

\* lines 103-125, uniform generation: the Q2 range is empty, 'continue'
TrialUniformSkipped ==
    /\ pc = "Sampling"
    /\ fGenerateUniformly
    /\ ~IterExceeded(IterIncr(iter))
    /\ EmptyRange(Q2Range(probeE, kine))
    /\ \E kW \in Draws :
         LET gW == LoopWmin + ((LoopWmax - LoopWmin) * kW) \div RndDen
         IN  last' = [NoTrial EXCEPT !.kind = "skipped", !.gW = gW,
                                     !.xsec = last.xsec]
    /\ iter' = IterIncr(iter)
    /\ nTrials' = nTrials + 1
    /\ nRnd' = nRnd + 1
    /\ UNCHANGED <<cfgVars, intVars, fEnvelope, kine, bits, evflags, diffXSec, evWeight,
                   pc, W, xsec_max, exception, nSample, nXSec, auxVars>>

\* lines 103-128, 171-238, uniform generation: a trial with a Q2 range
TrialUniform ==
    /\ pc = "Sampling"
    /\ fGenerateUniformly
    /\ ~IterExceeded(IterIncr(iter))
    /\ ~EmptyRange(Q2Range(probeE, kine))
    /\ \E kW \in Draws, kQ \in Draws :
         LET gW  == LoopWmin + ((LoopWmax - LoopWmin) * kW) \div RndDen
             Q2  == Q2Range(probeE, kine)
             gQ2 == Q2.min + ((Q2.max - Q2.min) * kQ) \div RndDen
             k   == SetTrialKinematics(kine, gW, gQ2)
             xs  == XSec(k)
             acc == AcceptUniform(xs)
         IN  /\ last' = [NoTrial EXCEPT !.kind = "decided", !.gW = gW,
                                        !.gQ2 = gQ2, !.xsec = xs,
                                        !.accept = acc]
             /\ IF acc
                  THEN Commit(k, gW, gQ2, xs)
                  ELSE /\ kine' = k
                       /\ bits' = bits \cup {"kISkipKinematicChk"}
                       /\ UNCHANGED <<diffXSec, evWeight, pc>>
    /\ iter' = IterIncr(iter)
    /\ nTrials' = nTrials + 1
    /\ nRnd' = nRnd + 2
    /\ nXSec' = nXSec + 1
    /\ UNCHANGED <<cfgVars, intVars, fEnvelope, evflags,
                   W, xsec_max, exception, nSample, auxVars>>

\* an envelope left with the dummy range and parameters of LoadConfigData
ConfiguredEnvelopeDummy(k) ==
    [xmin |-> 1, ymin |-> 1, xmax |-> 10, ymax |-> 10, par |-> <<0, 0, 0, 0>>]

\* lines 136-162: on the first iteration the envelope is given its range
\* and parameters (k is the kinematics after SetW(Wmin))
ConfiguredEnvelope(k) ==
    LET Q2    == Q2Range(probeE, k)
        Q2min == 0 + kASmallNum
        Q2max == Q2.max - kASmallNum
    IN  [xmin |-> Q2toQD2(Q2max), ymin |-> LoopWmin,
         xmax |-> Q2toQD2(Q2min), ymax |-> LoopWmax,
         par  |-> <<ResMassTicks,
                    IF knownRes THEN WidthKnownRes ELSE WidthUnknownRes,
                    xsec_max, LoopWmax>>]

\* lines 103-113, 130-238, importance sampling: one trial
TrialImportance ==
    /\ pc = "Sampling"
    /\ ~fGenerateUniformly
    /\ ~IterExceeded(IterIncr(iter))
    /\ LET k1  == IF IterIncr(iter) = 1 THEN SetW(kine, LoopWmin) ELSE kine
           env == IF IterIncr(iter) = 1 THEN ConfiguredEnvelope(k1) ELSE fEnvelope
       IN  /\ fEnvelope' = env
           /\ \E p \in EnvelopePoints(env), kt \in Draws :
                LET gQD2 == p[1]
                    gW   == p[2]
                    gQ2  == QD2toQ2(gQD2)
                    k    == SetTrialKinematics(k1, gW, gQ2)
                    xs   == XSec(k)
                    mx   == EnvelopeEval(env, gQD2, gW)
                    J    == Jacobian(k)
                    stop == XSecLimitExceeded(xs, mx)
                    acc  == ~stop /\ AcceptImportance(mx * kt, J, xs)
                IN  /\ last' = [kind |-> IF stop THEN "stopped" ELSE "decided",
                                gW |-> gW, gQ2 |-> gQ2, gQD2 |-> gQD2,
                                xsec |-> xs, max |-> mx, r |-> kt, J |-> J,
                                accept |-> acc]
                    /\ IF acc
                         THEN Commit(k, gW, gQ2, xs)
                         ELSE /\ kine' = k
                              /\ pc' = IF stop THEN "CeilingViolation" ELSE pc
                              /\ UNCHANGED <<diffXSec, evWeight, bits>>
    /\ iter' = IterIncr(iter)
    /\ nTrials' = nTrials + 1
    /\ nRnd' = nRnd + 1
    /\ nSample' = nSample + 1
    /\ nXSec' = nXSec + 1
    /\ UNCHANGED <<cfgVars, intVars, evflags, W, xsec_max, exception, auxVars>>

(***************************************************************************)
(* Specification of one selection.                                         *)
(***************************************************************************)
\* the W limits and cuts of the selections that are run
WCutPairs == {<<DefaultCutMin, DefaultCutMax>>, <<DefaultCutMin, 15>>,
              <<DefaultCutMin, 8>>, <<22, DefaultCutMax>>}
Q2CutPairs == {<<DefaultCutMin, DefaultCutMax>>, <<2, 4>>}

\* no paired runs
NoPair == [on |-> FALSE]

\* no search of the maximum
NoScan == [pc |-> "none"]

\* no application run
NoApp == [pc |-> "none"]

\* a generator that is configured once and stays
NoLife == [pc |-> "none"]

InitCommon ==
    /\ fEnvelope = [xmin |-> 1, ymin |-> 1, xmax |-> 10, ymax |-> 10,
                    par |-> <<0, 0, 0, 0>>]
    /\ bits = {}
    /\ evflags = {}
    /\ diffXSec = 0
    /\ pc = "Entry"
    /\ W = Range(0, 0)
    /\ xsec_max = 0
    /\ iter = 0
    /\ last = NoTrial
    /\ exception = NoException
    /\ nTrials = 0 /\ nRnd = 0 /\ nSample = 0 /\ nXSec = 0
    /\ rangeOut = [op |-> "none", phys |-> Range(0, 0), r |-> Range(0, 0)]
    /\ det = NoPair
    /\ life = NoLife

Init ==
    /\ InitCommon
    /\ app = NoApp
    /\ scan = NoScan
    /\ fSafetyFactor = DefaultSafetyFactor
    /\ evXSec = 5 /\ weightIn = Weight(1)
    /\ evWeight = weightIn
    /\ fXSecModel \in XSecModels
    /\ fGenerateUniformly \in BOOLEAN
    /\ \E c \in WCutPairs : fWmin = c[1] /\ fWmax = c[2]
    /\ \E c \in Q2CutPairs : fQ2min = c[1] /\ fQ2max = c[2]
    /\ fWcut \in {9, 13, 14}
    /\ fMaxXSecDiffTolerance \in MaxXSecDiffToleranceValues
    /\ physW \in {Range(10, 20), Range(12, 11)}
    /\ probeE \in {16}
    /\ knownRes \in BOOLEAN
    /\ kine \in {NoKinematics, SetW(NoKinematics, 15)}

Next ==
    \/ EnterAssertFails
    \/ EnterNoPhaseSpace
    \/ EnterUniform
    \/ EnterImportance
    \/ EnterMaxXSecFails
    \/ Exhaust
    \/ TrialUniformSkipped
    \/ TrialUniform
    \/ TrialImportance

Spec == Init /\ [][Next]_vars

\* the loop has no suspension point: a selection that can step does step
FairSpec == Spec /\ WF_vars(Next)

(***************************************************************************)
(* Specification of one selection on event records that come with a weight *)
(* and a total cross section.                                              *)
(***************************************************************************)
\* the total cross section of the event: that of the selected interaction,
\* or 0 on a record that was given none
TotalXSecValues == {0, 5}

\* the weight of the event: 1, or what earlier steps multiplied into it
EntryWeights == {1, 3}

\* probe energies: at the larger one the Q2 range under the cuts [2, 4] is
\* the same at every W (a rectangular phase space)
ProbeEnergies == {16, 25}

InitWeight ==
    /\ InitCommon
    /\ app = NoApp
    /\ scan = NoScan
    /\ fSafetyFactor = DefaultSafetyFactor
    /\ evXSec \in TotalXSecValues
    /\ \E w \in EntryWeights : weightIn = Weight(w)
    /\ evWeight = weightIn
    /\ fXSecModel \in XSecModels
    /\ fGenerateUniformly \in BOOLEAN
    /\ fWmin = DefaultCutMin /\ fWmax = DefaultCutMax
    /\ \E c \in Q2CutPairs : fQ2min = c[1] /\ fQ2max = c[2]
    /\ fWcut = 14
    /\ fMaxXSecDiffTolerance = 0
    /\ physW \in {Range(10, 20), Range(12, 11)}
    /\ probeE \in ProbeEnergies
    /\ knownRes = FALSE
    /\ kine \in {NoKinematics, SetW(NoKinematics, 15)}

SpecWeight == InitWeight /\ [][Next]_vars

(***************************************************************************)
(* Specification of the range functions on their own: WRange and Q2Range   *)
(* are called for limits and cuts drawn from bounded sets.                 *)
(***************************************************************************)
CallWRange ==
    /\ rangeOut' = [op |-> "WRange", phys |-> physW, r |-> WRange(physW)]
    /\ UNCHANGED <<det, scan, app, life>>
    /\ UNCHANGED <<cfgVars, intVars, fEnvelope, kine, bits, evflags, diffXSec, evWeight,
                   pc, W, xsec_max, iter, last, exception, cntVars>>

CallQ2Range ==
    /\ rangeOut' = [op |-> "Q2Range", phys |-> KineRangeQ2(probeE, kine),
                    r |-> Q2Range(probeE, kine)]
    /\ UNCHANGED <<det, scan, app, life>>
    /\ UNCHANGED <<cfgVars, intVars, fEnvelope, kine, bits, evflags, diffXSec, evWeight,
                   pc, W, xsec_max, iter, last, exception, cntVars>>

InitRange ==
    /\ InitCommon
    /\ app = NoApp
    /\ scan = NoScan
    /\ fSafetyFactor = DefaultSafetyFactor
    /\ evXSec = 5 /\ weightIn = Weight(1)
    /\ evWeight = weightIn
    /\ fXSecModel = "flat"
    /\ fGenerateUniformly = FALSE
    /\ fWmin \in {DefaultCutMin, 5, 12, 22}
    /\ fWmax \in {8, 15, 25, DefaultCutMax}
    /\ fWmin <= fWmax
    /\ fQ2min \in {DefaultCutMin, 2, 6}
    /\ fQ2max \in {4, 20, DefaultCutMax}
    /\ fQ2min <= fQ2max
    /\ fWcut \in {9, 13, 17, 30}
    /\ fMaxXSecDiffTolerance = 0
    /\ physW \in {Range(10, 20), Range(12, 12), Range(12, 11)}
    /\ probeE \in {16}
    /\ knownRes = FALSE
    /\ kine \in {NoKinematics} \cup {SetW(NoKinematics, w) : w \in {11, 15, 17}}

NextRange == CallWRange \/ CallQ2Range

SpecRange == InitRange /\ [][NextRange]_vars

(***************************************************************************)
(* Two selections side by side: the same interaction, configuration and    *)
(* stream of random values, in generators that earlier selections left in  *)
(* different states.  A run is the record of what ProcessEventRecord       *)
(* works on; pos is the number of random values it has consumed.           *)
(***************************************************************************)
\* the run as it enters the rejection loop (lines 91-101)
EnterRun(k, env, ceiling) ==
    [pc |-> "Sampling", iter |-> 0, pos |-> 0, kine |-> k, fEnvelope |-> env,
     xsec_max |-> ceiling, diffXSec |-> 0, evWeight |-> weightIn]

\* TF2::GetRandom2 for the two random values ux / RndDen, uy / RndDen: a
\* point of the envelope's range
GetRandom2(env, ux, uy) ==
    <<env.xmin + ((env.xmax - env.xmin + 1) * ux) \div RndDen,
      env.ymin + ((env.ymax - env.ymin + 1) * uy) \div RndDen>>

\* lines 196-237 on a run
CommitRun(r, i, n, k, gW, gQ2, xs) ==
    LET xy == WQ2toXY(probeE, gW, gQ2)
    IN  [r EXCEPT !.iter = i, !.pos = @ + n, !.pc = "Accepted",
                  !.diffXSec = xs,
                  !.evWeight = CommittedWeight(fGenerateUniformly,
                                               PhaseSpaceVolume(physW, probeE),
                                               evXSec, xs, @),
                  !.kine = LockSelectedKinematics(k, gW, gQ2, xy.x, xy.y)]

\* lines 119-128, 171-238: one uniform trial of a run, on the random values
\* that follow its position in the stream t
UniformTrialRun(r, i, t) ==
    LET gW == LoopWmin + ((LoopWmax - LoopWmin) * t[r.pos + 1]) \div RndDen
        Q2 == Q2Range(probeE, r.kine)
    IN  IF EmptyRange(Q2) THEN [r EXCEPT !.iter = i, !.pos = @ + 1]
        ELSE LET gQ2 == Q2.min + ((Q2.max - Q2.min) * t[r.pos + 2]) \div RndDen
                 k   == SetTrialKinematics(r.kine, gW, gQ2)
                 xs  == XSec(k)
             IN  IF AcceptUniform(xs) THEN CommitRun(r, i, 2, k, gW, gQ2, xs)
                 ELSE [r EXCEPT !.iter = i, !.pos = @ + 2, !.kine = k]

\* lines 130-191, 196-238: one importance-sampling trial of a run
ImportanceTrialRun(r, i, t) ==
    LET k1   == IF i = 1 THEN SetW(r.kine, LoopWmin) ELSE r.kine
        env  == IF i = 1
                  THEN [ConfiguredEnvelope(k1) EXCEPT !.par[3] = r.xsec_max]
                  ELSE r.fEnvelope
        p    == GetRandom2(env, t[r.pos + 1], t[r.pos + 2])
        gQ2  == QD2toQ2(p[1])
        k    == SetTrialKinematics(k1, p[2], gQ2)
        xs   == XSec(k)
        mx   == EnvelopeEval(env, p[1], p[2])
        r1   == [r EXCEPT !.fEnvelope = env]
    IN  IF XSecLimitExceeded(xs, mx)
          THEN [r1 EXCEPT !.iter = i, !.pos = @ + 3, !.kine = k,
                          !.pc = "CeilingViolation"]
        ELSE IF AcceptImportance(mx * t[r.pos + 3], Jacobian(k), xs)
          THEN CommitRun(r1, i, 3, k, p[2], gQ2, xs)
        ELSE [r1 EXCEPT !.iter = i, !.pos = @ + 3, !.kine = k]

\* lines 102-238: one iteration of the loop of a run; a run that has ended
\* stays as it is
TrialRun(r, t) ==
    LET i == IterIncr(r.iter)
    IN  IF r.pc # "Sampling" THEN r
        ELSE IF IterExceeded(i) THEN [r EXCEPT !.iter = i, !.pc = "Exhausted"]
        ELSE IF fGenerateUniformly THEN UniformTrialRun(r, i, t)
        ELSE ImportanceTrialRun(r, i, t)

\* the random values one iteration may consume
DrawsPerTrial == 3

\* both runs make their next iteration; the stream is extended by the
\* values they read for the first time
PairTrial ==
    /\ det.on
    /\ det.a.pc = "Sampling" \/ det.b.pc = "Sampling"
    /\ \E e \in [1 .. DrawsPerTrial -> Draws] :
         LET seen == Max(det.a.pos, det.b.pos)
             t    == [j \in 1 .. (seen + DrawsPerTrial) |->
                         IF j <= Len(det.tape) THEN det.tape[j]
                         ELSE e[Min(j - Len(det.tape), DrawsPerTrial)]]
             a    == TrialRun(det.a, t)
             b    == TrialRun(det.b, t)
             used == Max(Len(det.tape), Max(a.pos, b.pos))
         IN  det' = [on |-> TRUE, a |-> a, b |-> b,
                     tape |-> [j \in 1 .. used |-> t[j]]]
    /\ UNCHANGED <<cfgVars, intVars, fEnvelope, kine, bits, evflags, diffXSec,
                   evWeight, pc, W, xsec_max, iter, last, exception, cntVars,
                   rangeOut, scan, app, life>>

\* what earlier selections can have left: running kinematics on the
\* interaction, a range and parameters on the envelope, a cached maximum
LeftKinematics == {NoKinematics, SetW(NoKinematics, 15)}
LeftEnvelopes ==
    {[xmin |-> 1, ymin |-> 1, xmax |-> 10, ymax |-> 10, par |-> <<0, 0, 0, 0>>],
     [xmin |-> 6, ymin |-> 11, xmax |-> 8, ymax |-> 12, par |-> <<12, 6, 40, 12>>]}

InitDet ==
    /\ bits = {"kISkipProcessChk"}
    /\ evflags = {}
    /\ diffXSec = 0
    /\ pc = "Sampling"
    /\ iter = 0
    /\ last = NoTrial
    /\ exception = NoException
    /\ nTrials = 0 /\ nRnd = 0 /\ nSample = 0 /\ nXSec = 0
    /\ rangeOut = [op |-> "none", phys |-> Range(0, 0), r |-> Range(0, 0)]
    /\ scan = NoScan
    /\ app = NoApp
    /\ life = NoLife
    /\ fSafetyFactor = DefaultSafetyFactor
    /\ evXSec = 5
    /\ weightIn = Weight(1)
    /\ evWeight = weightIn
    /\ fXSecModel \in XSecModels
    /\ fGenerateUniformly \in BOOLEAN
    /\ fWmin = DefaultCutMin /\ fWmax = DefaultCutMax
    /\ fQ2min = DefaultCutMin /\ fQ2max = DefaultCutMax
    /\ fWcut = 14
    /\ fMaxXSecDiffTolerance = 0
    /\ physW = Range(10, 20)
    /\ probeE = 16
    /\ knownRes = FALSE
    /\ W = WRange(physW)
    /\ kine \in LeftKinematics
    /\ fEnvelope \in LeftEnvelopes
    /\ xsec_max \in IF fGenerateUniformly THEN {-1}
                    ELSE {v \in MaxXSecValues : v > 0}
    /\ \E k \in LeftKinematics, env \in LeftEnvelopes,
          v \in IF fGenerateUniformly THEN {-1}
                ELSE {v \in MaxXSecValues : v > 0} :
         det = [on |-> TRUE, a |-> EnterRun(kine, fEnvelope, xsec_max),
                b |-> EnterRun(k, env, v), tape |-> <<>>]

NextDet == PairTrial

SpecDet == InitDet /\ [][NextDet]_vars

(***************************************************************************)
(* ComputeMaxXSec (lines 345-435).  The scan works in log Q2: position p   *)
(* is Q2 = Exp(logQ2min + p * dlogQ2 / SubSteps), so the coarse point iq2  *)
(* is at position iq2 * SubSteps and a refined step is SubSteps / kNQ2b    *)
(* positions.  Positions between the refined ones are where a dense        *)
(* reference grid looks and the scan does not.                             *)
(***************************************************************************)
SubSteps == 2 * kNQ2b
RefinedStep == SubSteps \div kNQ2b
LastPos == (NQ2 - 1) * SubSteps

MaxOf(S) == CHOOSE x \in S : \A y \in S : y <= x

\* the evaluators of this specification: height h at W = w and position c,
\* falling by s per position and by 3 per step of W
ScanModels ==
    {[h |-> 10, c |-> c, s |-> s, w |-> w] :
        c \in {0, 16, 20, 21, 62, 84}, s \in {0, 1, 2}, w \in {5, 12, 13}}

ScanXSec(m, w, p) ==
    Max(0, m.h - m.s * Max(p - m.c, m.c - p) - 3 * Max(w - m.w, m.w - w))

\* lines 373-380: W is pinned at the resonance mass if the W range has it,
\* else next to the boundary nearest to it
PinnedW(rW) ==
    IF rW.min <= ResMassTicks /\ ResMassTicks <= rW.max THEN ResMassTicks
    ELSE IF ResMassTicks >= rW.max THEN rW.max - kASmallNum
    ELSE rW.min + kASmallNum

\* line 387: if( rQ2.max < kMinQ2Limit || rQ2.min <=0 ) return 0.
Q2RangeRejected(rQ2) == rQ2.max < kMinQ2Limit \/ rQ2.min <= 0

\* lines 389-391: the sign of dlogQ2 (kASmallNum is far below the grid here)
ScanDir(rQ2) ==
    IF rQ2.max > rQ2.min THEN 1 ELSE IF rQ2.max = rQ2.min THEN 0 ELSE -1

\* a refined scan of two steps
RefinedPositionsTwoSteps(p, dir) == [j \in 1 .. 2 |-> p - j * RefinedStep * dir]

\* lines 410-412: Q2 = Exp(Log(Q2) - dlogQ2), kNQ2b times from the current
\* point with dlogQ2 divided by kNQ2b
RefinedPositions(p, dir) == [j \in 1 .. kNQ2b |-> p - j * RefinedStep * dir]

\* a plateau counted as a decrease
IncreasingStrictly(xsec, xseclast) == xsec - xseclast > 0

\* line 401: increasing = xsec-xseclast>=0
Increasing(xsec, xseclast) == xsec - xseclast >= 0

\* line 428: (E<0.8) ? 2. : fSafetyFactor
SafetyFactor(E) ==
    IF E < LowEnergyLimit THEN LowEnergySafetyFactor ELSE fSafetyFactor

\* lines 356-387 when the Q2 range is rejected: return 0
ScanReturnsZero ==
    /\ scan.pc = "Enter"
    /\ LET w   == PinnedW(WRange(physW))
           k   == SetW(kine, w)
           rQ2 == Q2Range(probeE, k)
       IN  /\ Q2RangeRejected(rQ2)
           /\ kine' = k
           /\ scan' = [pc |-> "Returned", W |-> w, rQ2 |-> rQ2,
                       dir |-> ScanDir(rQ2), iq2 |-> 0, xseclast |-> -1,
                       max_xsec |-> 0, samples |-> <<>>, refined |-> 0,
                       ret |-> 0]
    /\ UNCHANGED <<cfgVars, intVars, fEnvelope, bits, evflags, diffXSec,
                   evWeight, pc, W, xsec_max, iter, last, exception, cntVars,
                   rangeOut, det, app, life>>

\* lines 356-394: the scan is set up
ScanBegin ==
    /\ scan.pc = "Enter"
    /\ LET w   == PinnedW(WRange(physW))
           k   == SetW(kine, w)
           rQ2 == Q2Range(probeE, k)
       IN  /\ ~Q2RangeRejected(rQ2)
           /\ kine' = k
           /\ scan' = [pc |-> "Scan", W |-> w, rQ2 |-> rQ2,
                       dir |-> ScanDir(rQ2), iq2 |-> 0, xseclast |-> -1,
                       max_xsec |-> 0, samples |-> <<>>, refined |-> 0,
                       ret |-> 0]
    /\ UNCHANGED <<cfgVars, intVars, fEnvelope, bits, evflags, diffXSec,
                   evWeight, pc, W, xsec_max, iter, last, exception, cntVars,
                   rangeOut, det, app, life>>

\* lines 396-404, 424: a coarse point whose cross section is not below the
\* one before
ScanIncreasing ==
    /\ scan.pc = "Scan"
    /\ LET p    == scan.iq2 * SubSteps * scan.dir
           xsec == ScanXSec(fXSecModel, scan.W, p)
       IN  /\ Increasing(xsec, scan.xseclast)
           /\ kine' = SetQ2(kine, p)
           /\ scan' = [scan EXCEPT
                  !.max_xsec = Max(xsec, @), !.xseclast = xsec,
                  !.samples = Append(@, p), !.iq2 = @ + 1,
                  !.pc = IF scan.iq2 + 1 < NQ2 THEN "Scan" ELSE "Scale"]
    /\ UNCHANGED <<cfgVars, intVars, fEnvelope, bits, evflags, diffXSec,
                   evWeight, pc, W, xsec_max, iter, last, exception, cntVars,
                   rangeOut, det, app, life>>

\* lines 396-423: a coarse point whose cross section is below the one
\* before: the refined scan backwards from it, then 'break'
ScanRefine ==
    /\ scan.pc = "Scan"
    /\ LET p    == scan.iq2 * SubSteps * scan.dir
           xsec == ScanXSec(fXSecModel, scan.W, p)
           back == RefinedPositions(p, scan.dir)
           kept == SelectSeq(back, LAMBDA q : ~(q < 0))
           vals == {ScanXSec(fXSecModel, scan.W, kept[j]) :
                       j \in 1 .. Len(kept)}
       IN  /\ ~Increasing(xsec, scan.xseclast)
           /\ kine' = SetQ2(kine, IF kept = <<>> THEN p ELSE kept[Len(kept)])
           /\ scan' = [scan EXCEPT
                  !.max_xsec = MaxOf(vals \cup {xsec, @}), !.xseclast = xsec,
                  !.samples = Append(@, p) \o kept,
                  !.refined = @ + 1,
                  !.pc = "Scale"]
    /\ UNCHANGED <<cfgVars, intVars, fEnvelope, bits, evflags, diffXSec,
                   evWeight, pc, W, xsec_max, iter, last, exception, cntVars,
                   rangeOut, det, app, life>>

\* lines 425-434: the safety factor is applied and the value returned, in
\* units of 1 / FactorDen
ScanReturn ==
    /\ scan.pc = "Scale"
    /\ scan' = [scan EXCEPT !.ret = scan.max_xsec * SafetyFactor(probeE),
                            !.pc = "Returned"]
    /\ UNCHANGED <<cfgVars, intVars, fEnvelope, kine, bits, evflags, diffXSec,
                   evWeight, pc, W, xsec_max, iter, last, exception, cntVars,
                   rangeOut, det, app, life>>

\* lines 165-178: a candidate of the rejection loop that follows, at a W of
\* the allowed range and a Q2 of the scanned range
ScanCandidate ==
    /\ scan.pc = "Returned"
    /\ scan.samples # <<>>
    /\ scan.dir = 1
    /\ \E w \in (WRange(physW).min + kASmallNum) ..
                (WRange(physW).max - kASmallNum),
          p \in 0 .. LastPos :
         scan' = [pc |-> "Candidate", W |-> scan.W, rQ2 |-> scan.rQ2,
                  ret |-> scan.ret, gW |-> w, gQ2 |-> p,
                  xsec |-> ScanXSec(fXSecModel, w, p)]
    /\ UNCHANGED <<cfgVars, intVars, fEnvelope, kine, bits, evflags, diffXSec,
                   evWeight, pc, W, xsec_max, iter, last, exception, cntVars,
                   rangeOut, det, app, life>>

InitScan ==
    /\ InitCommon
    /\ app = NoApp
    /\ scan = [pc |-> "Enter"]
    /\ fSafetyFactor \in {DefaultSafetyFactor, 12}
    /\ evXSec = 5 /\ weightIn = Weight(1)
    /\ evWeight = weightIn
    /\ fXSecModel \in ScanModels
    /\ fGenerateUniformly = FALSE
    /\ fWmin = DefaultCutMin /\ fWmax = DefaultCutMax
    /\ \E c \in Q2CutPairs : fQ2min = c[1] /\ fQ2max = c[2]
    /\ fWcut = 30
    /\ fMaxXSecDiffTolerance = 0
    /\ physW \in {Range(10, 14), Range(14, 16), Range(3, 6)}
    /\ probeE \in {7, 16, 25}
    /\ knownRes = FALSE
    /\ kine = NoKinematics

NextScan ==
    \/ ScanReturnsZero
    \/ ScanBegin
    \/ ScanIncreasing
    \/ ScanRefine
    \/ ScanReturn
    \/ ScanCandidate

SpecScan == InitScan /\ [][NextScan]_vars

(***************************************************************************)
(* The application gevgenML (src/src/Apps/gAtmoEvGenML.cxx): main and      *)
(* GetCommandLineArgs.  A command line is the set of options given among   *)
(* -h, -n, -e, the values of -n and -e, whether the other options (-E, -p, *)
(* -g, ...) are acceptable, and whether the set-up of main succeeds.       *)
(***************************************************************************)
CommandLines ==
    [has : SUBSET {"h", "n", "e"}, n : {0, 2}, e : {-1, 0, 5},
     rest : BOOLEAN, setup : BOOLEAN]

\* lines 323-324: int gOptNev = -1; double gOptKtonYrExposure = -1
StartApp(cl) ==
    [pc |-> "GetCommandLineArgs", args |-> cl, gOptNev |-> -1,
     gOptKtonYrExposure |-> -1, have_required_statistics |-> FALSE,
     code |-> 0, fatal |-> FALSE, at |-> "args", done |-> {}, iev |-> 0]

\* CmdLnArgParser::OptionExists
OptionExists(a, o) == o \in a.args.has

\* exit(code), after a pFATAL message or not, in GetCommandLineArgs or main
Exit(a, code, fatal, at) ==
    [a EXCEPT !.pc = "Exit", !.code = code, !.fatal = fatal, !.at = at]

\* no conflict is ever seen
ExposureConflictNever(a) == FALSE

\* lines 672-682: -e is given and -n was read before it
ExposureConflict(a) == OptionExists(a, "n") /\ OptionExists(a, "e")

\* lines 695: if(!have_required_statistics), neither -n nor -e was given
ExposureMissing(a) == ~OptionExists(a, "n") /\ ~OptionExists(a, "e")

\* lines 673-678, 690-693: the options read in the exposure block
ReadExposure(a) ==
    [a EXCEPT !.gOptNev = IF OptionExists(a, "n") THEN a.args.n ELSE @,
              !.gOptKtonYrExposure =
                  IF OptionExists(a, "e") /\ ~OptionExists(a, "n")
                    THEN a.args.e ELSE @,
              !.have_required_statistics =
                  OptionExists(a, "n") \/ OptionExists(a, "e")]

AppStep(a) ==
    /\ app' = a
    /\ UNCHANGED <<cfgVars, intVars, fEnvelope, kine, bits, evflags, diffXSec,
                   evWeight, pc, W, xsec_max, iter, last, exception, cntVars,
                   rangeOut, det, scan, life>>

\* lines 640-655: -h prints the syntax and exits with 0
ArgsHelp ==
    /\ app.pc = "GetCommandLineArgs"
    /\ OptionExists(app, "h")
    /\ AppStep(Exit(app, 0, FALSE, "args"))

\* lines 657-689: both -n and -e
ArgsBothExposures ==
    /\ app.pc = "GetCommandLineArgs"
    /\ ~OptionExists(app, "h")
    /\ ExposureConflict(app)
    /\ AppStep(Exit(ReadExposure(app), 1, TRUE, "args"))

\* lines 657-702: neither -n nor -e
ArgsNoExposure ==
    /\ app.pc = "GetCommandLineArgs"
    /\ ~OptionExists(app, "h")
    /\ ~ExposureConflict(app)
    /\ ExposureMissing(app)
    /\ AppStep(Exit(ReadExposure(app), 1, TRUE, "args"))

\* lines 657-702: one of -n, -e
ArgsExposureRead ==
    /\ app.pc = "GetCommandLineArgs"
    /\ ~OptionExists(app, "h")
    /\ ~ExposureConflict(app)
    /\ ~ExposureMissing(app)
    /\ AppStep([ReadExposure(app) EXCEPT !.pc = "OtherOptions"])

\* lines 703-952: one of the other options is missing or malformed
ArgsOtherOptionsFail ==
    /\ app.pc = "OtherOptions"
    /\ ~app.args.rest
    /\ AppStep(Exit(app, 1, TRUE, "args"))

\* lines 703-1033: the other options are read; final check
\* if(gOptKtonYrExposure > 0) is true
ArgsUnsupportedExposure ==
    /\ app.pc = "OtherOptions"
    /\ app.args.rest
    /\ app.gOptKtonYrExposure > 0
    /\ AppStep(Exit(app, 1, TRUE, "args"))

\* lines 703-1033: the other options are read; the final check passes and
\* GetCommandLineArgs returns
ArgsAccepted ==
    /\ app.pc = "OtherOptions"
    /\ app.args.rest
    /\ ~(app.gOptKtonYrExposure > 0)
    /\ AppStep([app EXCEPT !.pc = "main", !.at = "main"])

\* lines 355-394: the tune, the flux driver or the geometry driver fails
MainSetupFails ==
    /\ app.pc = "main"
    /\ ~app.args.setup
    /\ AppStep(Exit([app EXCEPT !.done = {"flux"}], 1, TRUE, "main"))

\* lines 355-394: flux driver, geometry driver, job driver, ntuple writer
MainSetup ==
    /\ app.pc = "main"
    /\ app.args.setup
    /\ AppStep([app EXCEPT !.pc = "EventLoop",
                           !.done = {"flux", "geometry", "loop"}])

\* lines 397-414: for(int iev = 0; iev < gOptNev; iev++) GenerateEvent
MainGenerateEvent ==
    /\ app.pc = "EventLoop"
    /\ app.iev < app.gOptNev
    /\ AppStep([app EXCEPT !.iev = @ + 1])

\* lines 397, 416-425: the loop is over; the file is saved; return 0
MainReturn ==
    /\ app.pc = "EventLoop"
    /\ ~(app.iev < app.gOptNev)
    /\ AppStep(Exit(app, 0, FALSE, "main"))

InitArgs ==
    /\ InitCommon
    /\ scan = NoScan
    /\ fSafetyFactor = DefaultSafetyFactor
    /\ evXSec = 5 /\ weightIn = Weight(1)
    /\ evWeight = weightIn
    /\ fXSecModel = "flat"
    /\ fGenerateUniformly = FALSE
    /\ fWmin = DefaultCutMin /\ fWmax = DefaultCutMax
    /\ fQ2min = DefaultCutMin /\ fQ2max = DefaultCutMax
    /\ fWcut = 14
    /\ fMaxXSecDiffTolerance = 0
    /\ physW = Range(10, 20)
    /\ probeE = 16
    /\ knownRes = FALSE
    /\ kine = NoKinematics
    /\ \E cl \in CommandLines : app = StartApp(cl)

NextArgs ==
    \/ ArgsHelp
    \/ ArgsBothExposures
    \/ ArgsNoExposure
    \/ ArgsExposureRead
    \/ ArgsOtherOptionsFail
    \/ ArgsUnsupportedExposure
    \/ ArgsAccepted
    \/ MainSetupFails
    \/ MainSetup
    \/ MainGenerateEvent
    \/ MainReturn

SpecArgs == InitArgs /\ [][NextArgs]_vars

(***************************************************************************)
(* Specification of importance-sampled selections on narrow phase spaces:  *)
(* W ranges of one or two steps and Q2 ranges cut down to one step.        *)
(***************************************************************************)
NarrowWRanges == {Range(10, 11), Range(10, 12), Range(10, 14)}
NarrowQ2CutPairs == {<<DefaultCutMin, DefaultCutMax>>, <<DefaultCutMin, 2>>}

InitEnvelope ==
    /\ InitCommon
    /\ app = NoApp
    /\ scan = NoScan
    /\ fSafetyFactor = DefaultSafetyFactor
    /\ evXSec = 5 /\ weightIn = Weight(1)
    /\ evWeight = weightIn
    /\ fXSecModel \in XSecModels
    /\ fGenerateUniformly = FALSE
    /\ fWmin = DefaultCutMin /\ fWmax = DefaultCutMax
    /\ \E c \in NarrowQ2CutPairs : fQ2min = c[1] /\ fQ2max = c[2]
    /\ fWcut = 14
    /\ fMaxXSecDiffTolerance \in MaxXSecDiffToleranceValues
    /\ physW \in NarrowWRanges
    /\ probeE = 16
    /\ knownRes \in BOOLEAN
    /\ kine \in {NoKinematics, SetW(NoKinematics, 15)}

NextEnvelope ==
    \/ EnterImportance
    \/ EnterMaxXSecFails
    \/ TrialImportance
    \/ Exhaust

SpecEnvelope == InitEnvelope /\ [][NextEnvelope]_vars

(***************************************************************************)
(* Specification of the life of one generator object: constructor,         *)
(* Configure (by registry or by name), ProcessEventRecord calls and the    *)
(* destructor, in any order a single thread can make them.  TF2 objects    *)
(* are numbered in the order they are created.  The configuration fields   *)
(* other than fGenerateUniformly and fEnvelope hold their configured       *)
(* values throughout.                                                      *)
(***************************************************************************)
\* Configure calls and ProcessEventRecord calls on one object
MaxConfigures == 2
MaxCalls == 2

\* the object can be called
Alive(l) == l.pc \in {"Constructed", "Configured"}

\* no ProcessEventRecord call is in progress
Idle == pc \in {"Entry", "Accepted", "Exhausted", "MaxXSecFailed"}

\* a Configure that does not delete the envelope it replaces
DeleteEnvelopeSkipped(heap, ptr) == heap

\* lines 54, 302: if(fEnvelope) delete fEnvelope
DeleteEnvelope(heap, ptr) == IF ptr # 0 THEN heap \ {ptr} ELSE heap

\* lines 303-304: new TF2("envelope", ..., 0.1, 1, 0.1, 1, 4)
NewEnvelope ==
    [xmin |-> 1, ymin |-> 1, xmax |-> 10, ymax |-> 10, par |-> <<0, 0, 0, 0>>]

\* lines 242-254, 265-305: Configure(const Registry &) and Configure(string)
LifeConfigure ==
    /\ Alive(life)
    /\ Idle
    /\ life.made < MaxConfigures
    /\ fGenerateUniformly' \in BOOLEAN
    /\ \E by \in {"registry", "name"} :
         life' = [life EXCEPT
                    !.pc = "Configured", !.by = by,
                    !.heap = DeleteEnvelope(@, life.fEnvelope) \cup {life.made + 1},
                    !.fEnvelope = life.made + 1,
                    !.made = @ + 1]
    /\ fEnvelope' = NewEnvelope
    /\ UNCHANGED <<fWmin, fWmax, fQ2min, fQ2max, fWcut, fXSecModel,
                   fMaxXSecDiffTolerance, fSafetyFactor, intVars, kine, bits,
                   evflags, diffXSec, evWeight, pc, W, xsec_max, iter, last,
                   exception, cntVars, rangeOut, det, scan, app>>

\* lines 52-55: the destructor
LifeDestroy ==
    /\ Alive(life)
    /\ Idle
    /\ life' = [life EXCEPT !.pc = "Destroyed",
                            !.heap = DeleteEnvelope(@, life.fEnvelope)]
    /\ UNCHANGED <<cfgVars, intVars, fEnvelope, kine, bits, evflags, diffXSec,
                   evWeight, pc, W, xsec_max, iter, last, exception, cntVars,
                   rangeOut, det, scan, app>>

\* the next ProcessEventRecord call, on the record of a new event
LifeNewCall ==
    /\ Alive(life)
    /\ pc \in {"Accepted", "Exhausted", "MaxXSecFailed"}
    /\ life.calls < MaxCalls
    /\ life' = [life EXCEPT !.calls = @ + 1]
    /\ kine' = NoKinematics
    /\ bits' = {}
    /\ evflags' = {}
    /\ diffXSec' = 0
    /\ evWeight' = weightIn
    /\ pc' = "Entry"
    /\ W' = Range(0, 0)
    /\ xsec_max' = 0
    /\ iter' = 0
    /\ last' = NoTrial
    /\ exception' = NoException
    /\ nTrials' = 0 /\ nRnd' = 0 /\ nSample' = 0 /\ nXSec' = 0
    /\ UNCHANGED <<cfgVars, intVars, fEnvelope, rangeOut, det, scan, app>>

\* ProcessEventRecord on the object
LifeEnterUniform == Alive(life) /\ EnterUniform
LifeEnterImportance == Alive(life) /\ EnterImportance
LifeEnterMaxXSecFails == Alive(life) /\ EnterMaxXSecFails
LifeExhaust == Alive(life) /\ Exhaust
LifeTrialUniform == Alive(life) /\ TrialUniform
LifeTrialImportance == Alive(life) /\ life.fEnvelope # 0 /\ TrialImportance

\* lines 103-156, importance sampling on an object whose fEnvelope is 0:
\* fEnvelope->SetRange on the first iteration is a call through a null
\* pointer, which ends the process
LifeNullEnvelope ==
    /\ Alive(life)
    /\ life.fEnvelope = 0
    /\ pc = "Sampling"
    /\ ~fGenerateUniformly
    /\ ~IterExceeded(IterIncr(iter))
    /\ iter' = IterIncr(iter)
    /\ nTrials' = nTrials + 1
    /\ kine' = SetW(kine, LoopWmin)
    /\ life' = [life EXCEPT !.pc = "Crashed"]
    /\ pc' = "Aborted"
    /\ UNCHANGED <<cfgVars, intVars, fEnvelope, bits, evflags, diffXSec,
                   evWeight, W, xsec_max, last, exception, nRnd, nSample,
                   nXSec, rangeOut, det, scan, app>>

\* lines 40-50: after either constructor fEnvelope is 0, and nothing has
\* given fGenerateUniformly a value
InitLife ==
    /\ life = [pc |-> "Constructed", by |-> "none", fEnvelope |-> 0,
               heap |-> {}, made |-> 0, calls |-> 0]
    /\ fEnvelope = NewEnvelope
    /\ fGenerateUniformly \in BOOLEAN
    /\ bits = {}
    /\ evflags = {}
    /\ diffXSec = 0
    /\ pc = "Entry"
    /\ W = Range(0, 0)
    /\ xsec_max = 0
    /\ iter = 0
    /\ last = NoTrial
    /\ exception = NoException
    /\ nTrials = 0 /\ nRnd = 0 /\ nSample = 0 /\ nXSec = 0
    /\ rangeOut = [op |-> "none", phys |-> Range(0, 0), r |-> Range(0, 0)]
    /\ det = NoPair
    /\ scan = NoScan
    /\ app = NoApp
    /\ fSafetyFactor = DefaultSafetyFactor
    /\ evXSec = 5 /\ weightIn = Weight(1)
    /\ evWeight = weightIn
    /\ fXSecModel \in {"flat", "zero"}
    /\ fWmin = DefaultCutMin /\ fWmax = DefaultCutMax
    /\ fQ2min = DefaultCutMin /\ fQ2max = DefaultCutMax
    /\ fWcut = 14
    /\ fMaxXSecDiffTolerance = 0
    /\ physW = Range(10, 20)
    /\ probeE = 16
    /\ knownRes = FALSE
    /\ kine = NoKinematics

NextLife ==
    \/ LifeConfigure
    \/ LifeDestroy
    \/ LifeNewCall
    \/ LifeEnterUniform
    \/ LifeEnterImportance
    \/ LifeEnterMaxXSecFails
    \/ LifeExhaust
    \/ LifeTrialUniform
    \/ LifeTrialImportance
    \/ LifeNullEnvelope

SpecLife == InitLife /\ [][NextLife]_vars

(***************************************************************************)
(* Properties.                                                             *)
(***************************************************************************)
LoopExits == {"Accepted", "Exhausted", "CeilingViolation"}
Terminal == LoopExits \cup {"NoPhaseSpace", "Aborted", "MaxXSecFailed"}

\* C1 as stated: a selection that has left the rejection loop has either
\* returned with an accepted pair or raised the 'Couldn't select kinematics'
\* failure.
C1_EndsAcceptedOrExhausted ==
    (iter >= 1 /\ pc # "Sampling") => pc \in {"Accepted", "Exhausted"}

\* C1 amended: once in the rejection loop, the selection always ends, in one
\* of three ways: accepted, exhausted, or (importance sampling) stopped by the
\* ceiling check.  Every iteration, skipped ones included, advances the
\* counter, which never passes kRjMaxIterations + 1.
C1_LoopTerminates ==
    /\ [](pc \in {"Sampling"} \cup LoopExits =>
             /\ iter <= kRjMaxIterations + 1
             /\ (pc # "Exhausted" => iter = nTrials))
    /\ (pc = "Sampling") ~> (pc \in LoopExits)

\* a uniform selection that ended exhausted after only skipped iterations
C1_Witness ==
    /\ pc = "Exhausted"
    /\ fGenerateUniformly
    /\ last.kind = "skipped"
    /\ nXSec = 0

\* C2: exhaustion is raised after exactly kRjMaxIterations trials: never
\* are more trials started, and at the failure the draws, envelope samples and
\* evaluations are those of the kRjMaxIterations trials and no more.
C2_ExhaustedAfterExactlyMaxTrials ==
    /\ nTrials <= kRjMaxIterations
    /\ nXSec <= nTrials
    /\ (fGenerateUniformly => nRnd = nTrials + nXSec /\ nSample = 0)
    /\ (~fGenerateUniformly => nRnd = nTrials /\ nSample = nTrials /\ nXSec = nTrials)
    /\ (pc = "Exhausted" =>
           /\ nTrials = kRjMaxIterations
           /\ iter = kRjMaxIterations + 1
           /\ ~last.accept)

\* exhaustion after kRjMaxIterations evaluated and rejected trials
C2_Witness ==
    /\ pc = "Exhausted"
    /\ nXSec = kRjMaxIterations
    /\ last.kind = "decided"

\* C3: an empty W range always ends in NoPhaseSpace with the flag set and
\* the fast-forward failure raised, never in an abort, and before any ceiling
\* lookup, random draw or evaluation.
C3_EmptyWEndsInNoPhaseSpace ==
    (EmptyRange(WRange(physW)) /\ pc # "Entry") =>
        /\ pc = "NoPhaseSpace"
        /\ "kNoAvailablePhaseSpace" \in evflags
        /\ exception = FastForwardException("No available phase space")
        /\ nRnd = 0 /\ nSample = 0 /\ nXSec = 0 /\ nTrials = 0
        /\ xsec_max = 0

\* C4: W cuts that lie entirely outside the physical W range end the
\* selection with the NoAvailablePhaseSpace failure.
C4_CutsOutsideEndInNoPhaseSpace ==
    (/\ physW.min < physW.max
     /\ (fWmax <= physW.min \/ fWmin >= physW.max)
     /\ pc # "Entry") =>
        /\ pc = "NoPhaseSpace"
        /\ "kNoAvailablePhaseSpace" \in evflags
        /\ exception.raised
        /\ EmptyRange(W)

C6_WcutCapsUpperBound ==
    rangeOut.op = "WRange" =>
        LET n == ApplyCutsToKineLimits(rangeOut.phys, fWmin, fWmax)
        IN  /\ rangeOut.r.max <= fWcut
            /\ rangeOut.r.max <= n.max
            /\ rangeOut.r.max \in {fWcut, n.max}
            /\ rangeOut.r.min = n.min
            /\ ((rangeOut.phys = Range(10, 20) /\ fWmin = DefaultCutMin
                    /\ fWmax = 15 /\ fWcut >= 15)
                   => rangeOut.r = Range(10, 15))
            /\ ((rangeOut.phys = Range(10, 20) /\ fWmin = DefaultCutMin
                    /\ fWmax = 15 /\ fWcut = 13)
                   => rangeOut.r = Range(10, 13))

\* the scenario: [1.0, 2.0], W-max = 1.5, Wcut = 1.3 gives [1.0, 1.3]
C6_Witness ==
    /\ rangeOut.op = "WRange"
    /\ rangeOut.phys = Range(10, 20)
    /\ fWmin = DefaultCutMin /\ fWmax = 15 /\ fWcut = 13
    /\ rangeOut.r = Range(10, 13)

\* C7: no kinematic value is locked unless the selection ended accepted,
\* and on acceptance W, Q2, x, y are all locked, to the values of the accepted
\* trial.
C7_LockedOnlyOnAcceptance ==
    /\ (pc # "Accepted" => kine.locked = {})
    /\ (pc = "Accepted" =>
           /\ kine.locked = {"W", "Q2", "x", "y"}
           /\ last.accept
           /\ kine.selW = last.gW
           /\ kine.selQ2 = last.gQ2
           /\ kine.selx = WQ2toXY(probeE, last.gW, last.gQ2).x
           /\ kine.sely = WQ2toXY(probeE, last.gW, last.gQ2).y)

\* an exhausted selection whose rejected trials left running values
C7_Witness ==
    /\ pc = "Exhausted"
    /\ kine.has = {"W", "Q2"}
    /\ kine.locked = {}

\* C8: on the empty-bounds and the exhaustion path the matching flag is
\* set and a failure with a reason and fast-forward is raised.
C8_FailurePathsSignal ==
    /\ (EmptyRange(WRange(physW)) /\ pc # "Entry" =>
           /\ "kNoAvailablePhaseSpace" \in evflags
           /\ exception.raised /\ exception.reason # "" /\ exception.fastForward)
    /\ (pc = "Exhausted" =>
           /\ "kNoValidKinematics" \in evflags
           /\ exception.raised /\ exception.reason # "" /\ exception.fastForward)

\* C9: a decided uniform trial is accepted exactly when the cross section
\* evaluated at its (W, Q2) is strictly positive.
C9_UniformAcceptIffPositive ==
    (fGenerateUniformly /\ last.kind = "decided") =>
        /\ last.xsec = XSecAt(fXSecModel, last.gW, last.gQ2)
        /\ (last.accept <=> last.xsec > 0)
        /\ (pc = "Accepted" <=> last.accept)
        /\ xsec_max = -1

\* a uniform trial accepted with the smallest positive cross section
C9_Witness ==
    /\ fGenerateUniformly
    /\ pc = "Accepted"
    /\ last.xsec = 1

\* C10: a decided importance-sampling trial is accepted exactly when
\* t < J * xsec, with t = draw * envelope(QD2, W), J the Jacobian at the
\* candidate Q2 and xsec the evaluator's value at the candidate (W, Q2).
C10_ImportanceAcceptRule ==
    (~fGenerateUniformly /\ last.kind = "decided") =>
        /\ last.max = EnvelopeEval(fEnvelope, last.gQD2, last.gW)
        /\ last.gQ2 = QD2toQ2(last.gQD2)
        /\ last.J = ((kMQD2 + last.gQ2) * (kMQD2 + last.gQ2)) \div kMQD2
        /\ last.xsec = XSecAt(fXSecModel, last.gW, last.gQ2)
        /\ (last.accept <=> last.max * last.r < last.J * last.xsec * RndDen)
        /\ (pc = "Accepted" <=> last.accept)

\* an importance-sampling trial rejected although its cross section is
\* positive
C10_Witness ==
    /\ ~fGenerateUniformly
    /\ last.kind = "decided"
    /\ last.xsec > 0
    /\ ~last.accept

\* C11: in importance sampling the ceiling check on (xsec, envelope value at
\* the candidate) comes before the accept decision: a trial whose cross
\* section exceeds the envelope value by more than the tolerance (>= 0) is
\* never accepted and never silently rejected, it ends the selection with the
\* hard stop; no other trial is stopped.
C11_CeilingCheckedBeforeAccept ==
    /\ fMaxXSecDiffTolerance >= 0
    /\ (~fGenerateUniformly /\ last.kind \in {"decided", "stopped"} =>
           LET over == /\ last.xsec > last.max
                       /\ 200 * (last.xsec - last.max) >
                              fMaxXSecDiffTolerance * (last.max + last.xsec)
           IN  /\ last.max = EnvelopeEval(fEnvelope, last.gQD2, last.gW)
               /\ last.xsec = XSecAt(fXSecModel, last.gW, last.gQ2)
               /\ (over <=> last.kind = "stopped")
               /\ (over <=> pc = "CeilingViolation")
               /\ (over => /\ ~last.accept
                           /\ kine.locked = {}
                           /\ diffXSec = 0
                           /\ ~exception.raised))
    /\ (pc = "CeilingViolation" => ~fGenerateUniformly /\ last.kind = "stopped")

\* a trial stopped under a positive tolerance
C11_Witness ==
    /\ pc = "CeilingViolation"
    /\ fMaxXSecDiffTolerance > 0
    /\ last.kind = "stopped"
    /\ last.xsec > last.max

\* C12: on acceptance in uniform generation the weight of the event is
\* (weight at entry) * (phase-space volume / total cross section of the
\* event) * (cross section of the accepted trial), applied once, and the
\* weight is untouched when nothing is accepted; with a constant positive
\* cross section over a non-empty rectangular phase space (a non-empty W
\* range, and the same non-empty Q2 range at every W), the first trial is accepted and the weight is
\* (volume * constant) / total cross section times the weight at entry.
C12_UniformWeight ==
    LET vol == PhaseSpaceVolume(physW, probeE)
    IN  /\ (fGenerateUniformly /\ pc = "Accepted" =>
               /\ last.xsec = XSecAt(fXSecModel, kine.selW, kine.selQ2)
               /\ evWeight = [num |-> weightIn.num * vol * last.xsec,
                              den |-> weightIn.den * evXSec])
        /\ (pc # "Accepted" => evWeight = weightIn)
        /\ (/\ fGenerateUniformly
            /\ fXSecModel = "flat"
            /\ pc \notin {"Entry", "Aborted", "NoPhaseSpace"}
            /\ ~EmptyRange(Q2Range(probeE, NoKinematics))
            /\ \A w \in 0 .. physW.max :
                   Q2Range(probeE, SetW(NoKinematics, w)) =
                       Q2Range(probeE, NoKinematics)
            /\ nTrials >= 1
            => /\ pc = "Accepted"
               /\ nTrials = 1
               /\ evWeight = [num |-> weightIn.num * vol * 2,
                              den |-> weightIn.den * evXSec])

\* the flat cross section over the rectangular phase space, accepted at the
\* first trial with a weight at entry of 3 and a positive total cross section
C12_Witness ==
    /\ fGenerateUniformly
    /\ fXSecModel = "flat"
    /\ \A w \in 0 .. physW.max :
           Q2Range(probeE, SetW(NoKinematics, w)) = Range(2, 4)
    /\ pc = "Accepted"
    /\ nTrials = 1
    /\ weightIn = Weight(3)
    /\ evXSec = 5
    /\ evWeight =
           [num |-> 3 * PhaseSpaceVolume(physW, probeE) * 2, den |-> 5]

\* C13: the weight stored for an accepted uniform event is strictly
\* positive and finite, whatever total cross section, phase-space volume and
\* weight the event came with.
C13_UniformWeightPositiveFinite ==
    (fGenerateUniformly /\ pc = "Accepted") =>
        /\ evWeight.den # 0
        /\ evWeight.num * evWeight.den > 0

\* C14 as stated: after an accepted importance-sampling selection the
\* weight of the event is 1 and the stored differential cross section is the
\* evaluator's value at the accepted (W, Q2).
C14_ImportanceWeightIsOne ==
    (~fGenerateUniformly /\ pc = "Accepted") =>
        /\ evWeight = Weight(1)
        /\ diffXSec = XSecAt(fXSecModel, kine.selW, kine.selQ2)

\* C14 amended: an accepted importance-sampling selection leaves the weight
\* of the event as it was at entry (1 when nothing had weighted the event
\* before), and the stored differential cross section is the evaluator's value
\* at the accepted (W, Q2), the one computed in the accepted trial.
C14_ImportanceWeightUntouched ==
    (~fGenerateUniformly /\ pc = "Accepted") =>
        /\ evWeight = weightIn
        /\ (weightIn = Weight(1) => evWeight = Weight(1))
        /\ last.accept
        /\ kine.selW = last.gW /\ kine.selQ2 = last.gQ2
        /\ diffXSec = last.xsec
        /\ diffXSec = XSecAt(fXSecModel, kine.selW, kine.selQ2)

\* an importance-sampling selection accepted at a later trial, after a
\* rejected one, on an event that came with the weight 3
C14_Witness ==
    /\ ~fGenerateUniformly
    /\ pc = "Accepted"
    /\ nTrials >= 2
    /\ weightIn = Weight(3)
    /\ evWeight = Weight(3)

\* the outcome of a run: how it ended, what it locked and the weight
Outcome(r) ==
    [pc |-> r.pc, locked |-> r.kine.locked, W |-> r.kine.selW,
     Q2 |-> r.kine.selQ2, x |-> r.kine.selx, y |-> r.kine.sely,
     weight |-> r.evWeight]

\* C15: two selections on the same interaction, configuration and stream of
\* random values end with the same outcome, the same locked W, Q2, x, y and
\* the same weight, whatever earlier selections left on the envelope, in the
\* cache of maxima and in the running kinematics of the interaction.
C15_Deterministic ==
    (det.on /\ det.a.pc # "Sampling" /\ det.b.pc # "Sampling") =>
        Outcome(det.a) = Outcome(det.b)

\* C16: the ceiling ComputeMaxXSec returns (grid maximum times safety
\* factor) is at least the evaluator's value at every candidate (W, Q2) of the
\* rejection loop that follows, at any W of the allowed range and not only at
\* the pinned W and the scanned points.
C16_CeilingBoundsEveryCandidate ==
    scan.pc = "Candidate" => scan.ret >= FactorDen * scan.xsec

\* the largest value of the evaluator at W = w on a dense grid of the
\* scanned Q2 range
TruePeak(m, w) == MaxOf({ScanXSec(m, w, p) : p \in 0 .. LastPos})

\* C17: for a cross section with a single peak in Q2 at the pinned W,
\* anywhere in the scanned range, the returned value v satisfies
\* truePeak <= v <= safetyFactor * truePeak.
C17_PeakWithinSafetyFactor ==
    (/\ scan.pc = "Returned"
     /\ scan.samples # <<>>
     /\ scan.dir = 1
     /\ fXSecModel.s > 0
     /\ TruePeak(fXSecModel, scan.W) > 0) =>
        /\ FactorDen * TruePeak(fXSecModel, scan.W) <= scan.ret
        /\ scan.ret <= SafetyFactor(probeE) * TruePeak(fXSecModel, scan.W)

\* C18: ComputeMaxXSec returns a value that is not negative, and returns 0
\* without evaluating the cross section whenever the Q2 range at the pinned W
\* has Q2.min >= Q2.max, Q2.max below kMinQ2Limit or Q2.min <= 0.
C18_ZeroOnDegenerateRange ==
    scan.pc \in {"Scan", "Scale", "Returned"} =>
        /\ scan.ret >= 0
        /\ scan.max_xsec >= 0
        /\ (\/ scan.rQ2.min >= scan.rQ2.max
            \/ scan.rQ2.max < kMinQ2Limit
            \/ scan.rQ2.min <= 0) =>
               /\ scan.pc = "Returned"
               /\ scan.ret = 0
               /\ scan.samples = <<>>

\* C19: whenever exposure is requested in kton*yrs with -e, gevgenML ends
\* with a fatal error during argument handling and never enters the event
\* loop.
C19_KtonExposureIsFatal ==
    ("e" \in app.args.has /\ app.pc \notin {"GetCommandLineArgs", "OtherOptions"}) =>
        /\ app.pc = "Exit"
        /\ app.fatal
        /\ app.code # 0
        /\ app.at = "args"
        /\ app.done = {}
        /\ app.iev = 0

\* C20 as stated: giving both -n and -e, or neither, ends with an error
\* exit before any flux, geometry or event-generation step.
C20_OneOfNevAndExposure ==
    (/\ app.pc # "GetCommandLineArgs"
     /\ \/ {"n", "e"} \subseteq app.args.has
        \/ app.args.has \cap {"n", "e"} = {}) =>
        /\ app.pc = "Exit"
        /\ app.code # 0
        /\ app.done = {}
        /\ app.iev = 0

\* C20 amended: unless -h is given, giving both -n and -e, or neither, ends
\* with a fatal error and exit status 1 during argument handling, before any
\* flux, geometry or event-generation step, and giving exactly one passes the
\* exposure check; with -h the syntax is printed and the application exits
\* with status 0 before the exposure options are looked at.
C20_OneOfNevAndExposureUnlessHelp ==
    LET both    == {"n", "e"} \subseteq app.args.has
        neither == app.args.has \cap {"n", "e"} = {}
    IN  app.pc # "GetCommandLineArgs" =>
          /\ ("h" \in app.args.has =>
                 /\ app.pc = "Exit" /\ app.code = 0 /\ ~app.fatal
                 /\ app.done = {} /\ app.iev = 0)
          /\ ("h" \notin app.args.has /\ (both \/ neither) =>
                 /\ app.pc = "Exit" /\ app.code = 1 /\ app.fatal
                 /\ app.at = "args"
                 /\ app.gOptKtonYrExposure = -1
                 /\ app.done = {} /\ app.iev = 0)
          /\ ("h" \notin app.args.has /\ ~both /\ ~neither =>
                 /\ app.have_required_statistics
                 /\ (app.pc = "Exit" /\ app.at = "args" =>
                        ~app.args.rest \/ app.gOptKtonYrExposure > 0))

\* both options on the command line: the fatal exit of the exposure check
C20_Witness ==
    /\ app.args.has = {"n", "e"}
    /\ app.pc = "Exit"
    /\ app.code = 1
    /\ app.fatal
    /\ app.gOptNev = app.args.n

\* C21: in every trial of uniform generation the Q2 limits are those of the
\* W drawn in that same trial: when the Q2 range for the drawn W is empty
\* the trial is skipped and no cross section is evaluated, otherwise Q2 is
\* one of the uniform draws inside that range.
C21_Q2BoundsFromDrawnW ==
    [][(fGenerateUniformly /\ nTrials' = nTrials + 1) =>
          LET Q2 == Q2Range(probeE, SetW(kine, last'.gW))
          IN  IF EmptyRange(Q2)
                THEN last'.kind = "skipped" /\ nXSec' = nXSec
                ELSE /\ last'.kind = "decided"
                     /\ \E kQ \in Draws :
                          last'.gQ2 = Q2.min + ((Q2.max - Q2.min) * kQ) \div RndDen]_vars

\* C22: in importance sampling the range and the four parameters of the
\* envelope (resonance mass, width, ceiling, Wmax) are set on iteration 1,
\* before the first candidate is drawn, from the limits and the ceiling of
\* the interaction; they change in no other step of the selection, and every
\* trial draws exactly one candidate, from the envelope so configured.
C22_EnvelopeSetOnceOnFirstIteration ==
    /\ [](~fGenerateUniformly /\ pc \notin {"Entry", "Aborted"} =>
            /\ nSample = nTrials
            /\ (nTrials = 0 => fEnvelope.par = <<0, 0, 0, 0>>)
            /\ (nTrials >= 1 =>
                  LET Q2 == Q2Range(probeE, SetW(NoKinematics, W.min + kASmallNum))
                  IN  /\ fEnvelope.xmin = Q2toQD2(Q2.max - kASmallNum)
                      /\ fEnvelope.xmax = Q2toQD2(0 + kASmallNum)
                      /\ fEnvelope.ymin = W.min + kASmallNum
                      /\ fEnvelope.ymax = W.max - kASmallNum
                      /\ fEnvelope.par[1] = ResMassTicks
                      /\ fEnvelope.par[2] = (IF knownRes THEN WidthKnownRes
                                                         ELSE WidthUnknownRes)
                      /\ fEnvelope.par[3] = xsec_max
                      /\ fEnvelope.par[4] = W.max - kASmallNum
                      /\ <<last.gQD2, last.gW>> \in EnvelopePoints(fEnvelope)))
    /\ [][fEnvelope' # fEnvelope => ~fGenerateUniformly /\ iter = 0 /\ iter' = 1]_vars

\* a third trial of one importance-sampled selection
C22_Witness ==
    /\ ~fGenerateUniformly
    /\ nTrials = 3
    /\ nSample = 3
    /\ fEnvelope.par[3] = xsec_max

\* C23: the envelope is sampled only while its range has room in both
\* dimensions (QD2min < QD2max and Wmin < Wmax): a trial on a degenerate
\* range draws no candidate and evaluates nothing.
C23_NoSampleFromDegenerateRange ==
    (~fGenerateUniformly /\ nTrials >= 1 /\ DegenerateRange(fEnvelope)) =>
        nSample = 0 /\ nXSec = 0

\* C24: a selection goes Init -> BoundsComputed -> [CeilingKnown] -> Sampling
\* -> Accepted | Exhausted | NoPhaseSpace: the ceiling is obtained once, only
\* when not generating uniformly, after the W limits were found non-empty and
\* before the first trial; uniform generation uses neither the ceiling nor
\* the envelope; and a selection that has ended is in one of the three
\* terminal outcomes.
C24_OrderAndThreeOutcomes ==
    /\ [](/\ (pc \in {"Sampling"} \cup LoopExits =>
                 /\ ~EmptyRange(W)
                 /\ (fGenerateUniformly =>
                        /\ xsec_max = -1
                        /\ nSample = 0
                        /\ fEnvelope.par = <<0, 0, 0, 0>>)
                 /\ (~fGenerateUniformly => xsec_max > 0))
          /\ (pc = "NoPhaseSpace" => xsec_max = 0 /\ nTrials = 0)
          /\ (pc \notin {"Entry", "Sampling"} =>
                 pc \in {"Accepted", "Exhausted", "NoPhaseSpace"}))
    /\ [][xsec_max' # xsec_max =>
             /\ pc = "Entry" /\ pc' = "Sampling"
             /\ ~EmptyRange(W')
             /\ nTrials' = 0]_vars

\* C25 as stated: the refined scan is triggered at the first coarse point
\* whose cross section is less than or equal to that of the point before, a
\* plateau of two equal samples included; the first point never triggers it.
C25_RefinedAtFirstNonIncrease ==
    (scan.pc \in {"Scan", "Scale", "Returned"} /\ scan.samples # <<>>) =>
        LET n    == IF scan.refined = 1 THEN scan.iq2 + 1 ELSE scan.iq2
            v(i) == ScanXSec(fXSecModel, scan.W, scan.samples[i + 1])
        IN  /\ \A i \in 1 .. (n - 1) :
                 v(i) <= v(i - 1) => scan.refined = 1 /\ i = n - 1
            /\ (scan.refined = 1 => n >= 2 /\ v(n - 1) <= v(n - 2))

\* C25 amended: the refined scan is triggered at the first coarse point
\* whose cross section is strictly below that of the point before; a plateau
\* of equal samples does not trigger it and the coarse scan goes on; the
\* first point never triggers it.
C25_RefinedAtFirstDecrease ==
    (scan.pc \in {"Scan", "Scale", "Returned"} /\ scan.samples # <<>>) =>
        LET n    == IF scan.refined = 1 THEN scan.iq2 + 1 ELSE scan.iq2
            v(i) == ScanXSec(fXSecModel, scan.W, scan.samples[i + 1])
        IN  /\ \A i \in 1 .. (n - 1) :
                 v(i) < v(i - 1) => scan.refined = 1 /\ i = n - 1
            /\ (scan.refined = 1 => n >= 2 /\ v(n - 1) < v(n - 2))
            /\ scan.refined \in {0, 1}

\* a scan that went over a plateau, then up, and was refined at a decrease
C25_Witness ==
    /\ scan.pc = "Returned"
    /\ scan.refined = 1
    /\ scan.iq2 >= 3
    /\ ScanXSec(fXSecModel, scan.W, scan.samples[1]) =
           ScanXSec(fXSecModel, scan.W, scan.samples[2])
    /\ ScanXSec(fXSecModel, scan.W, scan.samples[scan.iq2]) >
           ScanXSec(fXSecModel, scan.W, scan.samples[scan.iq2 + 1])

\* C26 as stated: every search that reaches the Q2 scan runs the refined
\* scan (step divided by 3, three steps backwards) exactly once, ends right
\* after it, and returns the scaled maximum of all samples taken.
C26_RefinedExactlyOnce ==
    (scan.pc = "Returned" /\ scan.samples # <<>>) =>
        /\ scan.refined = 1
        /\ Len(scan.samples) = scan.iq2 + 1 + kNQ2b
        /\ scan.ret = SafetyFactor(probeE) *
               MaxOf({0} \cup {ScanXSec(fXSecModel, scan.W, scan.samples[j]) :
                                  j \in 1 .. Len(scan.samples)})

\* C26 amended: the refined scan runs at most once per search, and not at
\* all when no coarse point falls below the one before (all NQ2 coarse points
\* are then evaluated); when it runs, it takes kNQ2b steps of a third of the
\* coarse step backwards from the current point, evaluating those not below
\* the Q2 minimum, and no coarse point is evaluated after it; in both cases
\* the maximum of all samples taken is what is scaled and returned.
C26_RefinedAtMostOnce ==
    (scan.pc \in {"Scan", "Scale", "Returned"} /\ scan.samples # <<>>) =>
        /\ scan.refined \in {0, 1}
        /\ scan.max_xsec =
               MaxOf({0} \cup {ScanXSec(fXSecModel, scan.W, scan.samples[j]) :
                                  j \in 1 .. Len(scan.samples)})
        /\ (scan.pc = "Returned" =>
               scan.ret = SafetyFactor(probeE) * scan.max_xsec)
        /\ (scan.refined = 0 =>
               /\ Len(scan.samples) = scan.iq2
               /\ \A i \in 1 .. scan.iq2 :
                    scan.samples[i] = (i - 1) * SubSteps * scan.dir
               /\ (scan.pc # "Scan" => scan.iq2 = NQ2))
        /\ (scan.refined = 1 =>
               LET n    == scan.iq2 + 1
                   p    == scan.samples[n]
                   back == [j \in 1 .. kNQ2b |->
                               p - j * (SubSteps \div kNQ2b) * scan.dir]
               IN  /\ scan.pc # "Scan"
                   /\ n <= NQ2
                   /\ \A i \in 1 .. n :
                        scan.samples[i] = (i - 1) * SubSteps * scan.dir
                   /\ SubSeq(scan.samples, n + 1, Len(scan.samples)) =
                          SelectSeq(back, LAMBDA q : q >= 0))

\* a search that ended after a refined scan of three points
C26_Witness ==
    /\ scan.pc = "Returned"
    /\ scan.refined = 1
    /\ Len(scan.samples) = scan.iq2 + 1 + kNQ2b
    /\ scan.ret > 0

\* C27: the scanned maximum is multiplied by exactly one safety factor, 2
\* when the probe energy is below 0.8 GeV and the configured
\* max-xsec-safety-factor otherwise; and whatever value is configured, the
\* factor used at low energy is larger than the one used at higher energy.
C27_LowEnergyFactorIsLarger ==
    (scan.pc = "Returned" /\ scan.samples # <<>>) =>
        /\ scan.ret = scan.max_xsec * (IF probeE < LowEnergyLimit
                                         THEN LowEnergySafetyFactor
                                         ELSE fSafetyFactor)
        /\ LowEnergySafetyFactor > fSafetyFactor

\* C28: on acceptance, in either mode, the locked W is inside the range
\* WRange returns and the locked Q2 is inside the range Q2Range returns for
\* that W: no accepted event is outside the configured cuts.
C28_LockedInsideCuts ==
    pc = "Accepted" =>
        LET rW  == WRange(physW)
            rQ2 == Q2Range(probeE, SetW(NoKinematics, kine.selW))
        IN  /\ rW.min <= kine.selW /\ kine.selW <= rW.max
            /\ rQ2.min <= kine.selQ2 /\ kine.selQ2 <= rQ2.max

\* C29: on every exit of the selection (accepted, no phase space,
\* exhausted) the bits kISkipProcessChk and kISkipKinematicChk are cleared
\* again, and no running W or Q2 of a trial is left on the interaction.
C29_TrustBitsClearedOnEveryExit ==
    pc \in {"Accepted", "NoPhaseSpace", "Exhausted"} =>
        /\ bits \cap {"kISkipProcessChk", "kISkipKinematicChk"} = {}
        /\ (nXSec >= 1 => kine.has = {})

=============================================================================
